---- MODULE Spec2Model ----
(***************************************************************************)
(* Model of the thread pool of SongsUnsung/MyThreadPool.                   *)
(*                                                                         *)
(* ThreadCpp/threadpool.cpp and ThreadCppFinal/threadpool.h implement the  *)
(* same pool engine (the second one returns std::future instead of         *)
(* Result).  The model follows the code statement by statement:            *)
(*   - every critical section under taskQueMtx_ is one action, from the    *)
(*     acquisition of the mutex to its release (end of scope, return, or   *)
(*     the wait on a condition variable);                                   *)
(*   - code that runs WITHOUT the mutex (start, the store to               *)
(*     isPoolRunning_ in the destructor, the execution of a task and the   *)
(*     idleThreadSize_++ after it) is split into one action per statement, *)
(*     so that it interleaves with the critical sections of other threads; *)
(*   - a condition variable is the set of threads whose program counter is *)
(*     in the waiting state; notify_all moves them to the woken state,     *)
(*     from which they must take the mutex again;                          *)
(*   - the expiry of a timed wait is a separate action: between the expiry *)
(*     and the re-acquisition of the mutex other threads may run.          *)
(***************************************************************************)
EXTENDS Integers, Sequences, FiniteSets, TLC

\* ------------------------------------------------------------------ bounds
NumTasks == 2      \* number of submitTask calls (one submitter thread each)
MaxStart == 2      \* largest argument passed to start
MaxThreads == 2    \* OS threads running threadFunc that are ever launched
MaxCap == 1        \* largest capacity passed to setTaskQueMaxThreshHold
MaxCeil == 1       \* largest ceiling passed to setThreadSizeThreshHold
MaxPrior == 1      \* most Thread objects made by pools that lived earlier

\* ------------------------------------------------------- program constants
TASK_MAX_THRESHHOLD == 2147483647
THREAD_MAX_THRESHHOLD == 10
DefaultInitThreadSize == 4

Tasks == 1..NumTasks
\* the submitters of a burst: one more than the tasks of the other runs
Burst == 1..(NumTasks + 1)
Modes == {"MODE_FIXED", "MODE_CACHED"}

\* value produced by the run() of task t, and the value of an invalid handle
RunValue(t) == 100 + t
Sentinel == 0
\* get() has not returned yet
NoValue == -1

VARIABLES
    poolMode_, isPoolRunning_,
    initThreadSize_, curThreadSize_, idleThreadSize_, threadSizeThreshHold_,
    taskQue_, taskSize_, taskQueMaxThreshHold_,
    threads_,        \* keys of the map threads_
    generateId_,     \* Thread::generateId_
    wk,              \* the OS threads running threadFunc: <<[tid, pc, task]>>
    mpc, mi,         \* owner thread of the pool: position, loop index i
    mreg,            \* owner thread: value read from generateId_ by generateId_++
    tpc,             \* submitter of task t: position
    handle,          \* what submitTask returned for task t
    execCount,       \* how many times task t was run by a worker
    sem, any_,       \* Result of task t: semaphore count and stored value
    got,             \* value returned by get() on the handle of t
    \* history, read by no action:
    pending,         \* accepted tasks whose run has not begun, in accepted order
    ignoredConfig,   \* a configuration call was made on the running pool
    raised,          \* tasks whose run raised an error
    dtorLive,        \* threads_ was not empty when the destructor began
    created          \* ids of the Thread objects constructed, in order

vars == <<poolMode_, isPoolRunning_, initThreadSize_, curThreadSize_,
          idleThreadSize_, threadSizeThreshHold_, taskQue_, taskSize_,
          taskQueMaxThreshHold_, threads_, generateId_, wk, mpc, mi, mreg,
          tpc, handle, execCount, sem, any_, got,
          pending, ignoredConfig, raised, dtorLive, created>>

poolVars == <<poolMode_, isPoolRunning_, initThreadSize_, curThreadSize_,
              idleThreadSize_, threadSizeThreshHold_, taskQue_, taskSize_,
              taskQueMaxThreshHold_, threads_, generateId_>>
resultVars == <<execCount, sem, any_, got>>
histVars == <<pending, ignoredConfig, raised, dtorLive, created>>

\* ThreadPool::ThreadPool() and the static initialisation of generateId_
InitPool ==
    /\ poolMode_ = "MODE_FIXED"
    /\ isPoolRunning_ = FALSE
    /\ initThreadSize_ = DefaultInitThreadSize
    /\ curThreadSize_ = 0
    /\ idleThreadSize_ = 0
    /\ threadSizeThreshHold_ = THREAD_MAX_THRESHHOLD
    /\ taskQue_ = <<>>
    /\ taskSize_ = 0
    /\ taskQueMaxThreshHold_ = TASK_MAX_THRESHHOLD
    /\ threads_ = {}
    /\ wk = <<>>
    /\ mpc = "pre"
    /\ mi = 0
    /\ mreg = 0
    /\ tpc = [t \in Burst |-> "init"]
    /\ handle = [t \in Burst |-> "none"]
    /\ execCount = [t \in Burst |-> 0]
    /\ sem = [t \in Burst |-> 0]
    /\ any_ = [t \in Burst |-> Sentinel]
    /\ got = [t \in Burst |-> NoValue]
    /\ pending = <<>>
    /\ ignoredConfig = FALSE
    /\ raised = {}
    /\ dtorLive = FALSE
    /\ created = <<>>

\* the first pool of the process: the static Thread::generateId_ is 0
Init == InitPool /\ generateId_ = 0

\* a pool constructed after earlier pools of the same process made Threads:
\* the static generateId_ is where they left it
InitLaterPool == InitPool /\ generateId_ \in 0..MaxPrior

\* ------------------------------------------------------------- helpers

\* mutation: a queue at its capacity counts as not full
NotFullPred_AtCap(q, th) == th < 0 \/ Len(q) <= th

\* taskQue_.size() < (size_t)taskQueMaxThreshHold_ : the cast turns a negative
\* threshold into a number larger than any queue length
NotFullPred(q, th) == th < 0 \/ Len(q) < th

\* mutation: the notification of notEmpty_ is lost
NotifyAllNotEmpty_Lost(w) == w

\* notEmpty_.notify_all(): every worker blocked in the wait becomes runnable
NotifyAllNotEmpty(w) ==
    [s \in DOMAIN w |-> IF w[s].pc = "wait" THEN [w[s] EXCEPT !.pc = "woken"]
                                            ELSE w[s]]

\* notFull_.notify_all(): every submitter blocked in wait_for becomes runnable
NotifyAllNotFull(p) ==
    [t \in DOMAIN p |-> IF p[t] = "waitFull" THEN "wokenFull" ELSE p[t]]

\* exitCond_.notify_all(): the thread blocked in the destructor becomes runnable
NotifyExit(m) == IF m = "d_wait" THEN "d_woken" ELSE m

\* predicate of exitCond_.wait in the destructor
ExitPred(th) == th = {}

\* Thread::start(): a new OS thread runs threadFunc(id), first step: take mutex
Launch(w, id) == Append(w, [tid |-> id, pc |-> "lock", task |-> 0])

\* the pool object is alive and its destructor has not begun
PoolUsable == mpc \notin {"d_lock", "d_wait", "d_woken", "returned", "crashed"}
\* the process has not died on the null Thread pointer in start
NotCrashed == mpc # "crashed"

InFlight(t) == tpc[t] \in {"waitFull", "wokenFull", "expired"}

\* ------------------------------------------------- submitTask and get

\* mutation: the refused task is put into the queue all the same
RejectedQueue_Kept(q, t) == Append(q, t)

\* queue after a submission was refused on the admission timeout
RejectedQueue(q, t) == q

\* cached mode: submitTask creates one more worker
NeedNewThread(mode, tsize, idle, cur, ceil) ==
    mode = "MODE_CACHED" /\ tsize > idle /\ cur < ceil

\* mutation: the task is put at the front of the queue
PushBack_Front(q, t) == <<t>> \o q

\* taskQue_.emplace(task)
PushBack(q, t) == Append(q, t)

\* the accepting path of submitTask: emplace, taskSize_++, notify_all,
\* possibly create and start one Thread, return a valid handle
Enqueue(t) ==
    /\ taskQue_' = PushBack(taskQue_, t)
    /\ pending' = Append(pending, t)
    /\ taskSize_' = taskSize_ + 1
    /\ IF NeedNewThread(poolMode_, taskSize_ + 1, idleThreadSize_,
                        curThreadSize_, threadSizeThreshHold_)
       THEN /\ Len(wk) < MaxThreads
            /\ threads_' = threads_ \cup {generateId_}
            /\ generateId_' = generateId_ + 1
            /\ wk' = Launch(NotifyAllNotEmpty(wk), generateId_)
            /\ curThreadSize_' = curThreadSize_ + 1
            /\ idleThreadSize_' = idleThreadSize_ + 1
            /\ created' = Append(created, generateId_)
       ELSE /\ wk' = NotifyAllNotEmpty(wk)
            /\ UNCHANGED <<threads_, generateId_, curThreadSize_,
                           idleThreadSize_, created>>
    /\ tpc' = [tpc EXCEPT ![t] = "returned"]
    /\ handle' = [handle EXCEPT ![t] = "valid"]

\* the refusing path of submitTask: Result(sp, false) / future of RType()
Reject(t) ==
    /\ taskQue_' = RejectedQueue(taskQue_, t)
    /\ tpc' = [tpc EXCEPT ![t] = "returned"]
    /\ handle' = [handle EXCEPT ![t] = "invalid"]
    /\ UNCHANGED <<taskSize_, wk, threads_, generateId_, curThreadSize_,
                   idleThreadSize_, pending, created>>

\* notFull_.wait_for releases the mutex and blocks
BlockFull(t) ==
    /\ tpc' = [tpc EXCEPT ![t] = "waitFull"]
    /\ UNCHANGED <<taskQue_, taskSize_, wk, threads_, generateId_,
                   curThreadSize_, idleThreadSize_, handle, pending,
                   created>>

\* One critical section of submitTask.  It starts when the call takes the
\* mutex ("init"), or when the submitter takes it again after a notification
\* ("wokenFull") or after the expiry of the one second ("expired").
\* wait_for(lock, 1s, pred) returns pred() after the expiry.
submitTask(t) ==
    /\ PoolUsable
    /\ tpc[t] \in {"init", "wokenFull", "expired"}
    /\ IF NotFullPred(taskQue_, taskQueMaxThreshHold_)
       THEN Enqueue(t)
       ELSE IF tpc[t] = "expired" THEN Reject(t) ELSE BlockFull(t)
    /\ UNCHANGED <<poolMode_, isPoolRunning_, initThreadSize_,
                   threadSizeThreshHold_, taskQueMaxThreshHold_, mpc, mi, mreg,
                   execCount, sem, any_, got, ignoredConfig, raised,
                   dtorLive>>

\* the one second of notFull_.wait_for elapses while the submitter is blocked
\* (or is woken and has not yet taken the mutex again)
SubmitTimeout(t) ==
    /\ NotCrashed
    /\ tpc[t] \in {"waitFull", "wokenFull"}
    /\ tpc' = [tpc EXCEPT ![t] = "expired"]
    /\ UNCHANGED <<poolVars, wk, mpc, mi, mreg, handle, resultVars, histVars>>

\* Semaphore of a Result, a counter of permits that starts at 0:
\* wait() returns only when a permit is there and takes it, post() adds one
SemReady(n) == n > 0
SemWait(n) == n - 1
SemPost(n) == n + 1

\* mutation: get() hands out the empty value for every handle
ResultGet_Empty(isValid, a) == Sentinel

\* the value Result::get() returns: "" for an invalid handle, else any_
ResultGet(isValid, a) == IF isValid THEN a ELSE Sentinel

\* Result::get(): "" at once on an invalid handle, otherwise sem_.wait() and
\* the stored value
get(t) ==
    /\ NotCrashed
    /\ tpc[t] = "returned"
    /\ IF handle[t] = "invalid"
       THEN /\ got' = [got EXCEPT ![t] = ResultGet(FALSE, any_[t])]
            /\ sem' = sem
       ELSE /\ SemReady(sem[t])
            /\ sem' = [sem EXCEPT ![t] = SemWait(sem[t])]
            /\ got' = [got EXCEPT ![t] = ResultGet(TRUE, any_[t])]
    /\ tpc' = [tpc EXCEPT ![t] = "done"]
    /\ UNCHANGED <<poolVars, wk, mpc, mi, mreg, handle, execCount, any_,
                   histVars>>

\* ------------------------------------------------------- threadFunc

\* mutation: the retirement does not look at the initial size
CanRetire_NoFloor(expired, cur, init) == expired

\* guard of the idle-timeout retirement
CanRetire(expired, cur, init) == expired /\ cur > init

\* may the worker leave through the shutdown path
MustExit(q, running) == Len(q) = 0 /\ ~running

\* One critical section of threadFunc for the OS thread in slot s.  It starts
\* when the thread takes the mutex: at the top of the for loop ("lock"), or
\* when a wait on notEmpty_ returns, notified ("woken") or timed out
\* ("timeout").  idleExpired is dur.count() >= THREAD_MAX_IDLE_TIME: the
\* time since lastTime is not under the control of the pool.
threadFunc(s, idleExpired) ==
    /\ NotCrashed
    /\ s \in DOMAIN wk
    /\ wk[s].pc \in {"lock", "woken", "timeout"}
    /\ IF wk[s].pc = "timeout"
          /\ CanRetire(idleExpired, curThreadSize_, initThreadSize_)
       THEN \* idle-timeout retirement: erase, counters, return
            /\ threads_' = threads_ \ {wk[s].tid}
            /\ curThreadSize_' = curThreadSize_ - 1
            /\ idleThreadSize_' = idleThreadSize_ - 1
            /\ wk' = [wk EXCEPT ![s].pc = "exited"]
            /\ UNCHANGED <<taskQue_, taskSize_, tpc, mpc>>
       ELSE IF Len(taskQue_) > 0
       THEN \* leave the while loop and take the head of the queue
            /\ idleThreadSize_' = idleThreadSize_ - 1
            /\ taskQue_' = Tail(taskQue_)
            /\ taskSize_' = taskSize_ - 1
            /\ wk' = LET w1 == IF Len(taskQue_) > 1
                               THEN NotifyAllNotEmpty(wk) ELSE wk
                     IN [w1 EXCEPT ![s].pc = "exec", ![s].task = Head(taskQue_)]
            /\ tpc' = NotifyAllNotFull(tpc)
            /\ UNCHANGED <<threads_, curThreadSize_, mpc>>
       ELSE IF MustExit(taskQue_, isPoolRunning_)
       THEN \* shutdown path: erase, exitCond_.notify_all, return
            /\ threads_' = threads_ \ {wk[s].tid}
            /\ mpc' = NotifyExit(mpc)
            /\ wk' = [wk EXCEPT ![s].pc = "exited"]
            /\ UNCHANGED <<taskQue_, taskSize_, curThreadSize_,
                           idleThreadSize_, tpc>>
       ELSE \* empty queue, pool running: wait on notEmpty_
            /\ wk' = [wk EXCEPT ![s].pc = "wait"]
            /\ UNCHANGED <<taskQue_, taskSize_, curThreadSize_,
                           idleThreadSize_, threads_, tpc, mpc>>
    /\ UNCHANGED <<poolMode_, isPoolRunning_, initThreadSize_,
                   threadSizeThreshHold_, taskQueMaxThreshHold_, generateId_,
                   mi, mreg, handle, resultVars, histVars>>

\* cached mode: the one second of notEmpty_.wait_for elapses
WaitTimeout(s) ==
    /\ NotCrashed
    /\ s \in DOMAIN wk
    /\ poolMode_ = "MODE_CACHED"
    /\ wk[s].pc \in {"wait", "woken"}
    /\ wk' = [wk EXCEPT ![s].pc = "timeout"]
    /\ UNCHANGED <<poolVars, mpc, mi, mreg, tpc, handle, resultVars, histVars>>

\* task(): Task::exec runs the task once and stores the value in its Result
RunTask(s) ==
    /\ NotCrashed
    /\ s \in DOMAIN wk
    /\ wk[s].pc = "exec"
    /\ LET t == wk[s].task IN
         /\ execCount' = [execCount EXCEPT ![t] = execCount[t] + 1]
         /\ any_' = [any_ EXCEPT ![t] = RunValue(t)]
         /\ sem' = [sem EXCEPT ![t] = SemPost(sem[t])]
         /\ pending' = SelectSeq(pending, LAMBDA x : x # t)
    /\ wk' = [wk EXCEPT ![s].pc = "post"]
    /\ UNCHANGED <<poolVars, mpc, mi, mreg, tpc, handle, got, ignoredConfig,
                   raised, dtorLive, created>>

\* task->exec() with a run() that throws: Task::exec and threadFunc have no
\* handler, the exception leaves the thread function and std::terminate ends
\* the process; setVal is not reached
RunTaskThrows(s) ==
    /\ NotCrashed
    /\ s \in DOMAIN wk
    /\ wk[s].pc = "exec"
    /\ LET t == wk[s].task IN
         /\ execCount' = [execCount EXCEPT ![t] = execCount[t] + 1]
         /\ pending' = SelectSeq(pending, LAMBDA x : x # t)
         /\ raised' = raised \cup {t}
    /\ mpc' = "crashed"
    /\ UNCHANGED <<poolVars, wk, mi, mreg, tpc, handle, sem, any_, got,
                   ignoredConfig, dtorLive, created>>

\* idleThreadSize_++ after the task, outside the mutex; back to the loop top
TaskDone(s) ==
    /\ NotCrashed
    /\ s \in DOMAIN wk
    /\ wk[s].pc = "post"
    /\ idleThreadSize_' = idleThreadSize_ + 1
    /\ wk' = [wk EXCEPT ![s].pc = "lock", ![s].task = 0]
    /\ UNCHANGED <<poolMode_, isPoolRunning_, initThreadSize_, curThreadSize_,
                   threadSizeThreshHold_, taskQue_, taskSize_,
                   taskQueMaxThreshHold_, threads_, generateId_, mpc, mi,
                   mreg, tpc, handle, resultVars, histVars>>

\* ------------------------------------ configuration (owner thread of the pool)

\* mutation: the pool never reports that it is running
checkRunningState_Never == FALSE

\* bool checkRunningState() const
checkRunningState == isPoolRunning_

\* the owner thread is between two calls on the pool
OwnerIdle == mpc \in {"pre", "started"}

otherThanMode == <<isPoolRunning_, initThreadSize_, curThreadSize_,
                   idleThreadSize_, threadSizeThreshHold_, taskQue_, taskSize_,
                   taskQueMaxThreshHold_, threads_, generateId_>>
otherThanCap == <<poolMode_, isPoolRunning_, initThreadSize_, curThreadSize_,
                  idleThreadSize_, threadSizeThreshHold_, taskQue_, taskSize_,
                  threads_, generateId_>>
otherThanCeil == <<poolMode_, isPoolRunning_, initThreadSize_, curThreadSize_,
                   idleThreadSize_, taskQue_, taskSize_,
                   taskQueMaxThreshHold_, threads_, generateId_>>
otherThanInit == <<poolMode_, isPoolRunning_, curThreadSize_,
                   idleThreadSize_, threadSizeThreshHold_, taskQue_, taskSize_,
                   taskQueMaxThreshHold_, threads_, generateId_>>
nonPoolVars == <<wk, mpc, mi, mreg, tpc, handle, execCount, sem, any_, got,
                 pending, raised, dtorLive, created>>

setMode(mode) ==
    /\ OwnerIdle
    /\ poolMode_' = IF checkRunningState THEN poolMode_ ELSE mode
    /\ ignoredConfig' = (ignoredConfig \/ checkRunningState)
    /\ UNCHANGED <<otherThanMode, nonPoolVars>>

\* "set before running": called before start only
setInitThreadSize(size) ==
    /\ mpc = "pre"
    /\ initThreadSize_' = size
    /\ UNCHANGED ignoredConfig
    /\ UNCHANGED <<otherThanInit, nonPoolVars>>

setTaskQueMaxThreshHold(threshHold) ==
    /\ OwnerIdle
    /\ taskQueMaxThreshHold_' =
          IF checkRunningState THEN taskQueMaxThreshHold_ ELSE threshHold
    /\ ignoredConfig' = (ignoredConfig \/ checkRunningState)
    /\ UNCHANGED <<otherThanCap, nonPoolVars>>

setThreadSizeThreshHold(threshHold) ==
    /\ OwnerIdle
    /\ threadSizeThreshHold_' =
          IF ~checkRunningState /\ poolMode_ = "MODE_CACHED"
          THEN threshHold ELSE threadSizeThreshHold_
    /\ ignoredConfig' = (ignoredConfig \/ checkRunningState)
    /\ UNCHANGED <<otherThanCeil, nonPoolVars>>

\* ------------------------------------------------------------- start
\* start runs without the mutex: one action per statement.

\* isPoolRunning_ = true
start(initThreadSize) ==
    /\ mpc = "pre"
    /\ isPoolRunning_' = TRUE
    /\ mi' = initThreadSize
    /\ mpc' = "s_init"
    /\ UNCHANGED <<poolMode_, initThreadSize_, curThreadSize_, idleThreadSize_,
                   threadSizeThreshHold_, taskQue_, taskSize_,
                   taskQueMaxThreshHold_, threads_, generateId_, wk, mreg, tpc,
                   handle, resultVars, histVars>>

\* initThreadSize_ = initThreadSize (mi holds the argument until the loops)
startInit ==
    /\ mpc = "s_init"
    /\ initThreadSize_' = mi
    /\ mpc' = "s_cur"
    /\ UNCHANGED <<otherThanInit, wk, mi, mreg, tpc, handle, resultVars,
                   histVars>>

\* curThreadSize_ = initThreadSize
startCur ==
    /\ mpc = "s_cur"
    /\ curThreadSize_' = mi
    /\ mi' = 0
    /\ mpc' = "s_create"
    /\ UNCHANGED <<poolMode_, isPoolRunning_, initThreadSize_, idleThreadSize_,
                   threadSizeThreshHold_, taskQue_, taskSize_,
                   taskQueMaxThreshHold_, threads_, generateId_, wk, mreg, tpc,
                   handle, resultVars, histVars>>

\* first loop, make_unique<Thread>: threadId_(generateId_++) on a plain static
\* int and without the mutex is a read followed by a write; this is the read
startCreate ==
    /\ mpc = "s_create"
    /\ IF mi < initThreadSize_
       THEN /\ mreg' = generateId_
            /\ mi' = mi
            /\ mpc' = "s_emplace"
       ELSE /\ mi' = 0
            /\ mpc' = "s_launch"
            /\ mreg' = mreg
    /\ UNCHANGED <<poolVars, wk, tpc, handle, resultVars, histVars>>

\* first loop: the write of generateId_++, then threads_.emplace(threadId, ptr)
\* (emplace changes nothing when the key is already in the map)
startEmplace ==
    /\ mpc = "s_emplace"
    /\ generateId_' = mreg + 1
    /\ threads_' = threads_ \cup {mreg}
    /\ created' = Append(created, mreg)
    /\ mi' = mi + 1
    /\ mpc' = "s_create"
    /\ UNCHANGED <<poolMode_, isPoolRunning_, initThreadSize_, curThreadSize_,
                   idleThreadSize_, threadSizeThreshHold_, taskQue_, taskSize_,
                   taskQueMaxThreshHold_, wk, mreg, tpc, handle, resultVars,
                   pending, ignoredConfig, raised, dtorLive>>

\* second loop, threads_[i]->start(): the map is indexed by the loop counter.
\* A key that is absent is inserted with a null pointer by operator[], and
\* the call through it kills the process.
startLaunch ==
    /\ mpc = "s_launch"
    /\ IF mi < initThreadSize_
       THEN IF mi \in threads_
            THEN /\ Len(wk) < MaxThreads
                 /\ wk' = Launch(wk, mi)
                 /\ mpc' = "s_idle"
                 /\ UNCHANGED threads_
            ELSE /\ threads_' = threads_ \cup {mi}
                 /\ mpc' = "crashed"
                 /\ UNCHANGED wk
       ELSE /\ mpc' = "started"
            /\ UNCHANGED <<threads_, wk>>
    /\ UNCHANGED <<poolMode_, isPoolRunning_, initThreadSize_, curThreadSize_,
                   idleThreadSize_, threadSizeThreshHold_, taskQue_, taskSize_,
                   taskQueMaxThreshHold_, generateId_, mi, mreg, tpc, handle,
                   resultVars, histVars>>

\* second loop, idleThreadSize_++
startIdle ==
    /\ mpc = "s_idle"
    /\ idleThreadSize_' = idleThreadSize_ + 1
    /\ mi' = mi + 1
    /\ mpc' = "s_launch"
    /\ UNCHANGED <<poolMode_, isPoolRunning_, initThreadSize_, curThreadSize_,
                   threadSizeThreshHold_, taskQue_, taskSize_,
                   taskQueMaxThreshHold_, threads_, generateId_, wk, mreg, tpc,
                   handle, resultVars, histVars>>

\* ------------------------------------------------------------ ~ThreadPool
\* The pool is destroyed by its owner thread, between two calls, when no
\* other thread is inside submitTask; no call begins on a pool under
\* destruction.

\* isPoolRunning_ = false (before the mutex is taken)
dtorFlag(from) ==
    /\ mpc = from
    /\ from \in {"pre", "started"}
    /\ \A t \in Burst : ~InFlight(t)
    /\ isPoolRunning_' = FALSE
    /\ mpc' = "d_lock"
    /\ dtorLive' = (threads_ # {})
    /\ UNCHANGED <<poolMode_, initThreadSize_, curThreadSize_, idleThreadSize_,
                   threadSizeThreshHold_, taskQue_, taskSize_,
                   taskQueMaxThreshHold_, threads_, generateId_, wk, mi, mreg,
                   tpc, handle, resultVars, pending, ignoredConfig, raised,
                   created>>

\* unique_lock, notEmpty_.notify_all(), exitCond_.wait(lock, pred)
dtorLock ==
    /\ mpc = "d_lock"
    /\ wk' = NotifyAllNotEmpty(wk)
    /\ mpc' = IF ExitPred(threads_) THEN "returned" ELSE "d_wait"
    /\ UNCHANGED <<poolVars, mi, mreg, tpc, handle, resultVars, histVars>>

\* exitCond_.wait wakes on a notification and evaluates the predicate again
dtorWake ==
    /\ mpc = "d_woken"
    /\ mpc' = IF ExitPred(threads_) THEN "returned" ELSE "d_wait"
    /\ UNCHANGED <<poolVars, wk, mi, mreg, tpc, handle, resultVars, histVars>>

\* ------------------------------------------------------- specifications

Slots == 1..MaxThreads

Next ==
    \/ \E m \in Modes : setMode(m)
    \/ \E k \in 0..MaxStart : setInitThreadSize(k)
    \/ \E k \in 1..MaxCap : setTaskQueMaxThreshHold(k)
    \/ \E k \in 1..MaxCeil : setThreadSizeThreshHold(k)
    \/ \E n \in 0..MaxStart : start(n)
    \/ startInit
    \/ startCur
    \/ startCreate
    \/ startEmplace
    \/ startLaunch
    \/ startIdle
    \/ \E f \in {"pre", "started"} : dtorFlag(f)
    \/ dtorLock
    \/ dtorWake
    \/ \E t \in Tasks : submitTask(t)
    \/ \E t \in Tasks : SubmitTimeout(t)
    \/ \E t \in Tasks : get(t)
    \/ \E s \in Slots : \E e \in BOOLEAN : threadFunc(s, e)
    \/ \E s \in Slots : WaitTimeout(s)
    \/ \E s \in Slots : RunTask(s)
    \/ \E s \in Slots : TaskDone(s)

Spec == Init /\ [][Next]_vars

\* ---- fixed mode, K >= 1 workers, fair scheduling
\* The mode is never changed (MODE_FIXED from the constructor), start is
\* called with at least one worker and the pool is destroyed after start.

NextFixed ==
    \/ \E k \in 1..MaxCap : setTaskQueMaxThreshHold(k)
    \/ \E n \in 1..MaxStart : start(n)
    \/ startInit
    \/ startCur
    \/ startCreate
    \/ startEmplace
    \/ startLaunch
    \/ startIdle
    \/ dtorFlag("started")
    \/ dtorLock
    \/ dtorWake
    \/ \E t \in Tasks : submitTask(t)
    \/ \E t \in Tasks : SubmitTimeout(t)
    \/ \E t \in Tasks : get(t)
    \/ \E s \in Slots : \E e \in BOOLEAN : threadFunc(s, e)
    \/ \E s \in Slots : RunTask(s)
    \/ \E s \in Slots : TaskDone(s)

\* Every thread that can take a step eventually takes it: start runs to its
\* end, a destructor that has begun goes on, a timed wait expires, a runnable
\* worker or submitter gets the mutex, a task terminates.  Nothing forces the
\* owner to destroy the pool or to configure it.
FairOwner ==
    /\ WF_vars(\E n \in 0..MaxStart : start(n))
    /\ WF_vars(startInit) /\ WF_vars(startCur) /\ WF_vars(startCreate)
    /\ WF_vars(startEmplace)
    /\ WF_vars(startLaunch) /\ WF_vars(startIdle)
    /\ WF_vars(dtorLock) /\ WF_vars(dtorWake)

FairWorkers ==
    \A s \in Slots :
        /\ WF_vars(\E e \in BOOLEAN : threadFunc(s, e))
        /\ WF_vars(WaitTimeout(s))
        /\ WF_vars(RunTask(s))
        /\ WF_vars(TaskDone(s))

FairSubmitters ==
    \A t \in Tasks :
        /\ WF_vars(submitTask(t))
        /\ WF_vars(SubmitTimeout(t))
        /\ WF_vars(get(t))

SpecFixed ==
    Init /\ [][NextFixed]_vars /\ FairOwner /\ FairWorkers /\ FairSubmitters

\* ---- fixed mode with tasks whose run may throw

NextThrow ==
    \/ NextFixed
    \/ \E s \in Slots : RunTaskThrows(s)

SpecThrow == Init /\ [][NextThrow]_vars

\* ---- fixed mode, in a process where other pools may have lived before

SpecLaterPool == InitLaterPool /\ [][NextFixed]_vars

\* a submitTask call made after start has returned
submitStarted(t) == mpc = "started" /\ submitTask(t)

\* ---- fixed mode, a burst of submissions against a small queue
\* The capacity is set before start; more submitters than the queue holds
\* call submitTask while the workers drain the queue.

NextBurst ==
    \/ \E k \in 1..MaxCap : setTaskQueMaxThreshHold(k)
    \/ \E n \in 1..MaxStart : start(n)
    \/ startInit
    \/ startCur
    \/ startCreate
    \/ startEmplace
    \/ startLaunch
    \/ startIdle
    \/ \E t \in Burst : submitStarted(t)
    \/ \E t \in Burst : SubmitTimeout(t)
    \/ \E s \in Slots : \E e \in BOOLEAN : threadFunc(s, e)
    \/ \E s \in Slots : RunTask(s)
    \/ \E s \in Slots : TaskDone(s)

SpecBurst == Init /\ [][NextBurst]_vars

\* ---- cached mode, fair scheduling
\* The owner configures the pool, starts it, and only then are tasks
\* submitted; the pool is destroyed after start.

NextCached ==
    \/ \E m \in {"MODE_CACHED"} : setMode(m)
    \/ \E k \in 1..MaxCap : setTaskQueMaxThreshHold(k)
    \/ \E k \in 1..MaxCeil : setThreadSizeThreshHold(k)
    \/ \E n \in 0..MaxStart : start(n)
    \/ startInit
    \/ startCur
    \/ startCreate
    \/ startEmplace
    \/ startLaunch
    \/ startIdle
    \/ dtorFlag("started")
    \/ dtorLock
    \/ dtorWake
    \/ \E t \in Tasks : submitStarted(t)
    \/ \E t \in Tasks : SubmitTimeout(t)
    \/ \E t \in Tasks : get(t)
    \/ \E s \in Slots : \E e \in BOOLEAN : threadFunc(s, e)
    \/ \E s \in Slots : WaitTimeout(s)
    \/ \E s \in Slots : RunTask(s)
    \/ \E s \in Slots : TaskDone(s)

SpecCached ==
    Init /\ [][NextCached]_vars /\ FairOwner /\ FairWorkers /\ FairSubmitters

\* ================================================================ claims

\* the task is held by a worker that took it from the queue
HeldBy(t) == {s \in DOMAIN wk : wk[s].pc \in {"exec", "post"} /\ wk[s].task = t}
InQueue(t) == \E i \in 1..Len(taskQue_) : taskQue_[i] = t

\* C1: in a fixed-mode pool started with K >= 1 workers, every task accepted
\* by submitTask is eventually executed, and no task is ever executed twice
\* or held by two workers.
C1_FixedEveryTaskOnce ==
    \A t \in Tasks :
        /\ [](execCount[t] <= 1 /\ Cardinality(HeldBy(t)) <= 1)
        /\ (handle[t] = "valid") ~> (execCount[t] = 1)

\* C1 witness: a started fixed pool has executed every task once, the tasks
\* having been in the queue together.
C1_Witness ==
    /\ poolMode_ = "MODE_FIXED"
    /\ mpc = "started"
    /\ \A t \in Tasks : execCount[t] = 1 /\ handle[t] = "valid"
    /\ \E s \in DOMAIN wk : wk[s].pc = "wait"

\* C2: in a cached-mode pool every task accepted before teardown is
\* eventually executed (exactly once).
C2_CachedEveryTaskOnce ==
    \A t \in Tasks :
        /\ [](execCount[t] <= 1)
        /\ (poolMode_ = "MODE_CACHED" /\ handle[t] = "valid")
               ~> (execCount[t] = 1)

\* C3: once the destructor has set the running flag to false, it eventually
\* returns.
C3_TeardownReturns == (mpc = "d_lock") ~> (mpc = "returned")

\* C4: when the destructor has returned, the live-worker collection is empty,
\* no worker is executing a task, and every task that a worker took from the
\* queue has been run and its result published.
C4_TeardownNotEarly ==
    mpc = "returned" =>
        /\ threads_ = {}
        /\ \A s \in DOMAIN wk : wk[s].pc \notin {"exec", "post"}
        /\ \A t \in Tasks :
              (handle[t] = "valid" /\ ~InQueue(t)) =>
                  (execCount[t] = 1 /\ any_[t] = RunValue(t))

\* C5: when the destructor has returned, curThreadSize_ is 0.
C5_TeardownCountZero == mpc = "returned" => curThreadSize_ = 0

\* C6: a submission whose admission timeout expires with the queue at
\* capacity returns an invalid handle; a refused submission leaves the queue,
\* taskSize_, the worker counters and the workers as they were; the refused
\* task is never in the queue, never held or run by a worker; get() on its
\* handle can return at once and returns the sentinel.
C6_AdmissionRejection ==
    /\ [][\A t \in Tasks :
             (tpc[t] = "expired" /\ tpc'[t] # "expired"
                /\ Len(taskQue_) >= taskQueMaxThreshHold_)
                  => handle'[t] = "invalid"]_vars
    /\ [][\A t \in Tasks :
             (handle[t] = "none" /\ handle'[t] = "invalid") =>
                 /\ taskQue_' = taskQue_
                 /\ taskSize_' = taskSize_
                 /\ curThreadSize_' = curThreadSize_
                 /\ idleThreadSize_' = idleThreadSize_
                 /\ threads_' = threads_
                 /\ generateId_' = generateId_
                 /\ wk' = wk]_vars
    /\ [](\A t \in Tasks :
             handle[t] = "invalid" =>
                 /\ ~InQueue(t)
                 /\ HeldBy(t) = {}
                 /\ execCount[t] = 0
                 /\ (tpc[t] = "returned" /\ NotCrashed => ENABLED get(t))
                 /\ (tpc[t] = "done" => got[t] = Sentinel))

\* C6 witness: a submission was refused while the queue was at capacity, and
\* get() on its handle has returned.
C6_Witness ==
    \E t \in Tasks :
        /\ handle[t] = "invalid"
        /\ tpc[t] = "done"
        /\ Len(taskQue_) = taskQueMaxThreshHold_

\* C7: the queue never holds more tasks than the configured capacity.
C7_QueueWithinCapacity == Len(taskQue_) <= taskQueMaxThreshHold_

\* C8: in cached mode, after start, curThreadSize_ never exceeds
\* threadSizeThreshHold_.
C8_CachedWithinCeiling ==
    (poolMode_ = "MODE_CACHED" /\ mpc = "started") =>
        curThreadSize_ <= threadSizeThreshHold_

\* C9: 0 <= idleThreadSize_ <= curThreadSize_ (every state of the model is
\* outside the critical sections of the queue mutex).
C9_IdleWithinCurrent ==
    0 <= idleThreadSize_ /\ idleThreadSize_ <= curThreadSize_

\* C10: after start and before teardown curThreadSize_ >= initThreadSize_.
C10_NotBelowInitial == mpc = "started" => curThreadSize_ >= initThreadSize_

\* C10 witness: a started cached pool with one worker above its initial size;
\* one worker has retired on the idle timeout, which brought the pool back to
\* its initial size, and another worker whose wait has timed out is left.
C10_Witness ==
    /\ mpc = "started"
    /\ poolMode_ = "MODE_CACHED"
    /\ isPoolRunning_
    /\ initThreadSize_ >= 1
    /\ curThreadSize_ = initThreadSize_
    /\ \E s1, s2 \in DOMAIN wk :
          /\ wk[s1].pc = "exited"
          /\ wk[s2].pc = "timeout"

\* ---- order of service

\* a was accepted before b and neither has begun to run
Before(a, b) ==
    \E i, j \in 1..Len(pending) : i < j /\ pending[i] = a /\ pending[j] = b

\* C11 as stated: tasks leave the queue in the order they were accepted, and
\* a task begins to run only when no task accepted before it is still waiting
\* to begin, whatever the number of workers.
C11_FifoExecution ==
    [][\A b \in Tasks :
          /\ (InQueue(b) /\ ~InQueue(b)') => b = Head(taskQue_)
          /\ (execCount'[b] > execCount[b]) => b = Head(pending)]_vars

\* C11, amended: tasks leave the queue in the order they were accepted: the
\* task a worker takes is the head of the queue and no task accepted before
\* it is still in the queue.  The order in which the workers begin to run the
\* tasks they hold is not fixed.
C11_FifoDequeue ==
    [][\A b \in Tasks :
          (InQueue(b) /\ ~InQueue(b)') =>
              /\ b = Head(taskQue_)
              /\ \A a \in Tasks : Before(a, b) => ~InQueue(a)]_vars

\* C11 witness: two workers hold two tasks, both taken from the queue in the
\* order they were accepted, and neither has begun to run.
C11_Witness ==
    \E a, b \in Tasks :
        /\ pending = <<a, b>>
        /\ HeldBy(a) # {} /\ HeldBy(b) # {} /\ HeldBy(a) # HeldBy(b)
        /\ \A s \in HeldBy(a) \cup HeldBy(b) : wk[s].pc = "exec"

\* ---- configuration of a started pool

\* a call of one of the three setters that the running check guards
ConfigCall ==
    \/ \E m \in Modes : setMode(m)
    \/ \E k \in 1..MaxCap : setTaskQueMaxThreshHold(k)
    \/ \E k \in 1..MaxCeil : setThreadSizeThreshHold(k)

\* C12: while the pool is running, no step changes poolMode_,
\* taskQueMaxThreshHold_ or threadSizeThreshHold_, and a call of setMode,
\* setTaskQueMaxThreshHold or setThreadSizeThreshHold returns leaving the
\* whole pool state, the workers, the submitters and the results unchanged.
C12_ConfigIgnoredWhenRunning ==
    /\ [][isPoolRunning_ =>
             UNCHANGED <<poolMode_, taskQueMaxThreshHold_,
                         threadSizeThreshHold_>>]_vars
    /\ [][(isPoolRunning_ /\ ConfigCall) =>
             UNCHANGED <<poolVars, wk, mpc, mi, mreg, tpc, handle,
                         resultVars>>]_vars

\* C12 witness: a setter has been called on the started pool and has
\* returned; the pool is still running with its default configuration.
C12_Witness ==
    /\ ignoredConfig
    /\ mpc = "started"
    /\ isPoolRunning_
    /\ poolMode_ = "MODE_FIXED"
    /\ taskQueMaxThreshHold_ = TASK_MAX_THRESHHOLD

\* ---- a task that raises an error

\* C13: when the run of a task raises an error, the process goes on, the
\* worker stays in threads_ and goes on to its idleThreadSize_++, the result
\* is published so that get() on the handle returns, and nothing else of the
\* pool changes.
C13_TaskErrorContained ==
    [][\A s \in DOMAIN wk :
          (wk[s].pc = "exec" /\ wk[s].task \in raised' \ raised) =>
              /\ NotCrashed'
              /\ wk[s].tid \in threads_'
              /\ wk'[s].pc = "post"
              /\ sem'[wk[s].task] = sem[wk[s].task] + 1
              /\ UNCHANGED poolVars]_vars

\* ---- worker identifiers

\* C14: the Thread objects constructed for the pool, by start or by
\* submitTask, carry pairwise different ids, handed out in strictly
\* increasing order.
C14_IdsUniqueIncreasing ==
    \A i, j \in 1..Len(created) : i < j => created[i] < created[j]

\* ---- results

\* C15: setVal is called at most once for a Result, by the one worker that
\* holds its task; get() on a valid handle has returned only after that
\* setVal, and what it returned is the value of the task's run.
C15_ResultOnce ==
    \A t \in Tasks :
        /\ execCount[t] <= 1
        /\ sem[t] <= 1
        /\ Cardinality(HeldBy(t)) <= 1
        /\ (handle[t] = "valid" /\ tpc[t] = "done") =>
               (execCount[t] = 1 /\ got[t] = RunValue(t))

\* C15 witness: get() on a valid handle has returned the value of the run.
C15_Witness ==
    \E t \in Tasks :
        /\ handle[t] = "valid"
        /\ tpc[t] = "done"
        /\ execCount[t] = 1
        /\ got[t] = RunValue(t)

\* ---- shutdown and idle-timeout retirement

\* C16: a worker that leaves while the queue is empty and isPoolRunning_ is
\* false leaves by the shutdown path, also when its timed wait has just
\* expired: it signals exitCond_ and does not touch the counters, which only
\* the retirement path decrements.
C16_ShutdownWins ==
    [][\A s \in DOMAIN wk :
          (/\ wk[s].pc # "exited" /\ wk'[s].pc = "exited"
           /\ taskQue_ = <<>> /\ ~isPoolRunning_) =>
              /\ mpc' = NotifyExit(mpc)
              /\ curThreadSize_' = curThreadSize_
              /\ idleThreadSize_' = idleThreadSize_]_vars

\* ---- the counters and the mutex

\* the steps a thread takes while it holds taskQueMtx_: the critical sections
\* of submitTask, of threadFunc and of the destructor
UnderMutex ==
    \/ \E t \in Burst : submitTask(t)
    \/ \E s \in Slots : \E e \in BOOLEAN : threadFunc(s, e)
    \/ dtorLock
    \/ dtorWake

\* C17: every step that changes curThreadSize_, idleThreadSize_ or taskSize_
\* is taken by a thread that holds taskQueMtx_.
C17_CountersUnderMutex ==
    [][(\/ curThreadSize_' # curThreadSize_
        \/ idleThreadSize_' # idleThreadSize_
        \/ taskSize_' # taskSize_) => UnderMutex]_vars

\* ---- start and the identifiers of its workers

\* the OS threads that run threadFunc for the record with this id
LoopsOf(id) == {s \in DOMAIN wk : wk[s].tid = id}

\* C18: whatever generateId_ was when the pool was constructed, start does
\* not fail, and when start(n) has returned threads_ holds exactly the n
\* records start created, each with exactly one running worker loop.
C18_StartLaunchesOwn ==
    /\ NotCrashed
    /\ mpc = "started" =>
          /\ Cardinality(threads_) = initThreadSize_
          /\ \A id \in threads_ : Cardinality(LoopsOf(id)) = 1

\* ---- teardown and the tasks still queued

\* C19: when the destructor has returned from a pool that had a live worker
\* when the destructor began, every task accepted into the queue has been
\* taken from it and run.
C19_TeardownDrains ==
    (mpc = "returned" /\ dtorLive) =>
        \A t \in Tasks :
            handle[t] = "valid" => (~InQueue(t) /\ execCount[t] = 1)

\* ---- submitters blocked on a full queue

\* a submitter that a dequeue has woken takes the mutex again: the step ends
\* in the append or in another wait
Reacquires(t) ==
    tpc[t] = "wokenFull" /\ tpc'[t] \in {"returned", "waitFull"}

\* C20 as stated: a submitter woken by the notification of a dequeue finds
\* the queue below its capacity when it has the mutex again, and appends its
\* task, however many submitters were blocked.
C20_WokenFindsRoom ==
    [][\A t \in Burst :
          Reacquires(t) =>
              /\ Len(taskQue_) < taskQueMaxThreshHold_
              /\ handle'[t] = "valid"
              /\ InQueue(t)']_vars

\* C20, amended: a woken submitter tests the queue again under the mutex; it
\* appends its task only if the queue is below its capacity, and otherwise
\* goes back to waiting and leaves the queue and its handle as they were.
C20_WokenRechecks ==
    [][\A t \in Burst :
          Reacquires(t) =>
              IF Len(taskQue_) < taskQueMaxThreshHold_
              THEN handle'[t] = "valid" /\ InQueue(t)'
              ELSE /\ tpc'[t] = "waitFull"
                   /\ taskQue_' = taskQue_
                   /\ handle'[t] = handle[t]]_vars

\* C20 witness: one dequeue woke two blocked submitters; the first to take the
\* mutex has appended its task, the queue is at its capacity again, and the
\* second has yet to take the mutex.
C20_Witness ==
    \E a, b \in Burst :
        /\ a # b
        /\ tpc[a] = "returned" /\ InQueue(a)
        /\ tpc[b] = "wokenFull"
        /\ Len(taskQue_) = taskQueMaxThreshHold_

====
